---- MODULE Spec2Model ----
(***************************************************************************)
(* Model of hooks/post-turn-quality-stop-hook.py: the stop-hook quality    *)
(* gate.  One run of main() is a walk of pc through the pipeline; every    *)
(* child process (git, make) is a step whose outcome is chosen             *)
(* nondeterministically, and every call is appended to `calls`.            *)
(*                                                                         *)
(* Python values: a str is a sequence of one-character strings; a          *)
(* `str | None` value is a sequence of str fragments whose concatenation   *)
(* is the string, None being the empty sequence (a string always has at    *)
(* least one fragment).                                                    *)
(*                                                                         *)
(* Spec is the hook run.  CallSpec calls the pure functions (truncate,     *)
(* detect_categories, targets_for_categories, dedup_preserve_order,        *)
(* format_reason) on arguments drawn from bounded sets, with the hook at   *)
(* rest.                                                                   *)
(***************************************************************************)
EXTENDS Integers, Sequences, FiniteSets, TLC

(* ------------------------------ bounds --------------------------------- *)
\* number of paths of PathUniverse that git may report
NumPaths == 4

(* --------------------------- small helpers ----------------------------- *)
NoneV == <<>>
\* truth value of a `str | None`: neither None nor the empty string
Truthy(s) == \E i \in 1..Len(s) : s[i] # <<>>
Range(s) == {s[i] : i \in 1..Len(s)}

\* the sub-sequence of s at the indices I, from index i on
RECURSIVE SubSeqAt(_, _, _)
SubSeqAt(s, I, i) ==
    IF i > Len(s) THEN <<>>
    ELSE (IF i \in I THEN <<s[i]>> ELSE <<>>) \o SubSeqAt(s, I, i + 1)

RECURSIVE Filter(_, _)
\* [x for x in s if x in keep]
Filter(s, keep) ==
    IF s = <<>> THEN <<>>
    ELSE IF Head(s) \in keep THEN <<Head(s)>> \o Filter(Tail(s), keep)
         ELSE Filter(Tail(s), keep)

(* ----------------------------- constants ------------------------------- *)
\* make target names, as text
CheckFmt ==
    <<"c", "h", "e", "c", "k", "-", "f", "m", "t">>
Lint ==
    <<"l", "i", "n", "t">>
Typecheck ==
    <<"t", "y", "p", "e", "c", "h", "e", "c", "k">>
Markdownlint ==
    <<"m", "a", "r", "k", "d", "o", "w", "n", "l", "i", "n", "t">>
CATS_TO_TARGETS(category) ==
    CASE category = "python_ts" -> <<CheckFmt, Lint, Typecheck>>
      [] category = "rust"      -> <<CheckFmt, Lint>>
      [] category = "markdown"  -> <<Markdownlint>>
      [] OTHER                  -> <<>>
\* CODE_CATS without the rust category
CODE_CATS_PythonOnly == {"python_ts"}
CODE_CATS == {"python_ts", "rust"}
MD_CATS == {"markdown"}
\* iteration order of the categories dict (insertion order of default_categories)
CategoryOrder == <<"python_ts", "rust", "markdown">>
default_categories == [python_ts |-> FALSE, rust |-> FALSE, markdown |-> FALSE]

(* -------------------------------- text --------------------------------- *)
\* the characters the model's texts are made of, in code-point order
CharOrder ==
    <<"\t", "\n", " ", "(", ")", "+", "-", ".", "/", "0", "1", "2", "3",
      "4", "5", "6", "7", "8", "9", "A", "B", "C", "D", "E", "F", "G", "H",
      "I", "J", "K", "L", "M", "N", "O", "P", "Q", "R", "S", "T", "U", "V",
      "W", "X", "Y", "Z", "_", "a", "b", "c", "d", "e", "f", "g", "h", "i",
      "j", "k", "l", "m", "n", "o", "p", "q", "r", "s", "t", "u", "v", "w",
      "x", "y", "z">>
UpperChars ==
    <<"A", "B", "C", "D", "E", "F", "G", "H", "I", "J", "K", "L", "M", "N",
      "O", "P", "Q", "R", "S", "T", "U", "V", "W", "X", "Y", "Z">>
LowerChars ==
    <<"a", "b", "c", "d", "e", "f", "g", "h", "i", "j", "k", "l", "m", "n",
      "o", "p", "q", "r", "s", "t", "u", "v", "w", "x", "y", "z">>
Digits ==
    <<"0", "1", "2", "3", "4", "5", "6", "7", "8", "9">>
Whitespace == {" ", "\n", "\t"}

CharCode(c) == CHOOSE i \in 1..Len(CharOrder) : CharOrder[i] = c

\* str.lower() on one character
LowerChar(c) ==
    IF \E i \in 1..Len(UpperChars) : UpperChars[i] = c
    THEN LowerChars[CHOOSE i \in 1..Len(UpperChars) : UpperChars[i] = c]
    ELSE c
Lower(t) == [i \in 1..Len(t) |-> LowerChar(t[i])]

RECURSIVE LStrip(_)
LStrip(t) == IF t # <<>> /\ Head(t) \in Whitespace THEN LStrip(Tail(t)) ELSE t
RECURSIVE RStrip(_)
RStrip(t) ==
    IF t # <<>> /\ t[Len(t)] \in Whitespace THEN RStrip(SubSeq(t, 1, Len(t) - 1)) ELSE t
\* str.strip()
Strip(t) == RStrip(LStrip(t))

\* a < b for Python strings (code-point lexicographic order)
RECURSIVE StrLess(_, _)
StrLess(a, b) ==
    IF b = <<>> THEN FALSE
    ELSE IF a = <<>> THEN TRUE
    ELSE IF Head(a) = Head(b) THEN StrLess(Tail(a), Tail(b))
    ELSE CharCode(Head(a)) < CharCode(Head(b))

\* sorted(S) for a set of strings
RECURSIVE Sorted(_)
Sorted(S) ==
    IF S = {} THEN <<>>
    ELSE LET m == CHOOSE x \in S : \A y \in S \ {x} : StrLess(x, y)
         IN <<m>> \o Sorted(S \ {m})

\* Python slice text[lo:hi] for 0-based, already normalised bounds
Slice(t, lo, hi) == IF lo >= hi THEN <<>> ELSE SubSeq(t, lo + 1, hi)
\* a slice index as Python normalises it against a text of length n
NormIndex(i, n) ==
    IF i < 0 THEN (IF n + i < 0 THEN 0 ELSE n + i)
    ELSE (IF i > n THEN n ELSE i)

TruncationMarker ==
    <<"\n", ".", ".", ".", " ", "(", "o", "u", "t", "p", "u", "t", " ",
      "t", "r", "u", "n", "c", "a", "t", "e", "d", ")", " ", ".", ".", ".",
      "\n">>

truncate(text, max_chars) ==
    IF Len(text) <= max_chars THEN text
    ELSE LET half == max_chars \div 2
         IN Slice(text, 0, NormIndex(half, Len(text)))
            \o TruncationMarker
            \o Slice(text, NormIndex(-half, Len(text)), Len(text))

(* ------------------------------ parse_env ------------------------------ *)
TRUTHY_VALUES == {<<"1">>, <<"t", "r", "u", "e">>, <<"y", "e", "s">>}
parse_bool_env(value) == Lower(Strip(value)) \in TRUTHY_VALUES

DefaultMaxOutput == 12000

DigitValue(c) == (CHOOSE i \in 1..Len(Digits) : Digits[i] = c) - 1
RECURSIVE DigitsValue(_)
DigitsValue(t) ==
    IF t = <<>> THEN 0
    ELSE DigitsValue(SubSeq(t, 1, Len(t) - 1)) * 10 + DigitValue(t[Len(t)])
AllDigits(t) == t # <<>> /\ \A i \in 1..Len(t) : t[i] \in Range(Digits)
\* int(value) succeeds: optional sign, then decimal digits, blanks around allowed
IsIntLiteral(value) ==
    LET t == Strip(value)
    IN IF t # <<>> /\ Head(t) \in {"+", "-"} THEN AllDigits(Tail(t)) ELSE AllDigits(t)
IntOf(value) ==
    LET t == Strip(value)
    IN IF Head(t) = "-" THEN 0 - DigitsValue(Tail(t))
       ELSE IF Head(t) = "+" THEN DigitsValue(Tail(t))
       ELSE DigitsValue(t)
parse_max_output(value) ==
    IF IsIntLiteral(value) THEN IntOf(value) ELSE DefaultMaxOutput

(* ----------------------------- classifier ------------------------------ *)
PY_TS_EXTS == {<<".", "p", "y">>, <<".", "p", "y", "i">>, <<".", "t", "s">>,
               <<".", "t", "s", "x">>, <<".", "m", "t", "s">>, <<".", "c", "t", "s">>}
RUST_EXTS == {<<".", "r", "s">>}
MD_EXTS == {<<".", "m", "d">>, <<".", "m", "d", "x">>,
            <<".", "m", "a", "r", "k", "d", "o", "w", "n">>}

\* position of the last occurrence of c in t, 0 when there is none
LastIndexOf(t, c) ==
    IF \E i \in 1..Len(t) : t[i] = c
    THEN CHOOSE i \in 1..Len(t) : t[i] = c /\ \A j \in (i + 1)..Len(t) : t[j] # c
    ELSE 0
\* Path(f).name: the last component
PathName(f) == SubSeq(f, LastIndexOf(f, "/") + 1, Len(f))
\* Path(f).suffix: from the last dot of the name, unless that dot leads or ends it
PathSuffix(f) ==
    LET name == PathName(f)
        i == LastIndexOf(name, ".")
    IN IF 1 < i /\ i < Len(name) THEN SubSeq(name, i, Len(name)) ELSE <<>>

RECURSIVE detect_from_LastFileWins(_, _)
\* detect_from starting from the defaults again at every file
detect_from_LastFileWins(files, cats) ==
    IF files = <<>> THEN cats
    ELSE LET ext == Lower(PathSuffix(Head(files)))
             c1 == [default_categories EXCEPT !.python_ts = ext \in PY_TS_EXTS]
             c2 == [c1 EXCEPT !.rust = ext \in RUST_EXTS]
             c3 == [c2 EXCEPT !.markdown = ext \in MD_EXTS]
         IN detect_from_LastFileWins(Tail(files), c3)

RECURSIVE detect_from(_, _)
detect_from(files, cats) ==
    IF files = <<>> THEN cats
    ELSE LET ext == Lower(PathSuffix(Head(files)))
             c1 == IF ext \in PY_TS_EXTS THEN [cats EXCEPT !.python_ts = TRUE] ELSE cats
             c2 == IF ext \in RUST_EXTS THEN [c1 EXCEPT !.rust = TRUE] ELSE c1
             c3 == IF ext \in MD_EXTS THEN [c2 EXCEPT !.markdown = TRUE] ELSE c2
         IN detect_from(Tail(files), c3)
detect_categories(files) == detect_from(files, default_categories)

(* ------------------------------ planner -------------------------------- *)
RECURSIVE dedup_from(_, _, _)
dedup_from(items, out, seen) ==
    IF items = <<>> THEN out
    ELSE IF Head(items) \in seen THEN dedup_from(Tail(items), out, seen)
    ELSE dedup_from(Tail(items), Append(out, Head(items)), seen \cup {Head(items)})
\* dedup_preserve_order returning the list as it came
dedup_preserve_order_KeepsAll(items) == items

dedup_preserve_order(items) == dedup_from(items, <<>>, {})

\* the `include` argument: None, or a set of categories
IncludeNone == [given |-> FALSE, cats |-> {}]
Include(S) == [given |-> TRUE, cats |-> S]

RECURSIVE requested_from(_, _, _)
requested_from(order, categories, include) ==
    IF order = <<>> THEN <<>>
    ELSE LET category == Head(order)
             rest == requested_from(Tail(order), categories, include)
         IN IF ~categories[category] THEN rest
            ELSE IF include.given /\ category \notin include.cats THEN rest
            ELSE CATS_TO_TARGETS(category) \o rest
targets_for_categories(categories, include) ==
    dedup_preserve_order(requested_from(CategoryOrder, categories, include))

(* ------------------------- the environment ----------------------------- *)
\* Paths git may list; the first NumPaths of them are used.
PathUniverse ==
    <<<<"a", ".", "p", "y">>,
      <<"R", "E", "A", "D", "M", "E", ".", "m", "d">>,
      <<"s", "r", "c", "/", "x", ".", "r", "s">>,
      <<"n", "o", "t", "e", "s", ".", "t", "x", "t">>,
      <<"l", "i", "b", "/", "B", ".", "P", "Y">>,
      <<"d", "o", "c", "s", "/", ".", "m", "d">>>>
Paths == {PathUniverse[i] : i \in 1..NumPaths}
\* the lines a git listing is made of: blank lines, a padded path, the paths
ListingLines ==
    <<<<>>, <<" ">>, <<" ">> \o PathUniverse[1] \o <<" ">>>>
    \o [i \in 1..NumPaths |-> PathUniverse[i]]
\* number of lines of a listing
MaxLines == 1
\* a listing is a selection of them, in that order
Listings ==
    {SubSeqAt(ListingLines, I, 1) :
       I \in {J \in SUBSET (1..Len(ListingLines)) : Cardinality(J) <= MaxLines}}

\* exit statuses of git; 128 is git's fatal error
GitExits == {0, 1, 128}
\* what a failing git leaves on stderr, already stripped
GitFatal ==
    <<"f", "a", "t", "a", "l", ":", " ", "b", "o", "o", "m">>
StderrTexts == {<<>>, GitFatal}

\* what a make run can leave: exit status and captured output
OutText ==
    <<"E", "1", " ", "b", "a", "d", "\n">>
ErrText ==
    <<"m", "a", "k", "e", ":", " ", "E", "r", "r", "o", "r", " ", "2", "\n">>
MakeRuns ==
    {[returncode |-> 0, stdout |-> <<>>, stderr |-> <<>>],
     [returncode |-> 0, stdout |-> OutText, stderr |-> <<>>],
     [returncode |-> 2, stdout |-> OutText, stderr |-> ErrText],
     [returncode |-> -9, stdout |-> <<>>, stderr |-> <<>>]}

\* lines `make -qp` may print; its stdout is any sub-sequence of them
MakeDbLines ==
    <<<<"#", " ", "l", "i", "n", "t", ":", " ", "n", "o", "t", "e", "s">>,
      <<"c", "h", "e", "c", "k", "-", "f", "m", "t", " ", "l", "i", "n", "t", ":",
        " ", "s", "r", "c">>,
      <<"\t", "l", "i", "n", "t", " ", "-", "-", "f", "i", "x">>,
      <<"t", "y", "p", "e", "c", "h", "e", "c", "k", ":", ":">>,
      <<"m", "a", "r", "k", "d", "o", "w", "n", "l", "i", "n", "t", " ", ":">>,
      <<"%", ".", "o", ":", " ", "%", ".", "c">>,
      <<"C", "C", " ", ":", "=", " ", "g", "c", "c">>,
      <<"O", "B", "J", "S", " ", "=", " ", "a", ".", "o">>>>
\* the targets each of these lines gives a rule to, in the Makefile it prints
MakeDbDefines ==
    <<{}, {CheckFmt, Lint}, {}, {Typecheck}, {Markdownlint}, {}, {}, {}>>
\* how the database prints a file the Makefile names only as a prerequisite
\* and has no rule for
MakeDbNotATarget ==
    <<<<"#", " ", "N", "o", "t", " ", "a", " ", "t", "a", "r", "g", "e", "t", ":">>,
      <<"t", "y", "p", "e", "c", "h", "e", "c", "k", ":">>>>
\* what make says on stderr when it exits 2
MakeNoMakefile ==
    <<"m", "a", "k", "e", ":", " ", "*", "*", "*", " ", "N", "o", " ", "t",
      "a", "r", "g", "e", "t", "s", " ", "s", "p", "e", "c", "i", "f", "i",
      "e", "d", " ", "a", "n", "d", " ", "n", "o", " ", "m", "a", "k", "e",
      "f", "i", "l", "e", " ", "f", "o", "u", "n", "d", ".", " ", " ", "S",
      "t", "o", "p", ".">>
MakeBroken ==
    <<"M", "a", "k", "e", "f", "i", "l", "e", ":", "3", ":", " ", "*", "*",
      "*", " ", "m", "i", "s", "s", "i", "n", "g", " ", "s", "e", "p", "a",
      "r", "a", "t", "o", "r", ".", " ", " ", "S", "t", "o", "p", ".">>
\* the same as make says it with LANGUAGE=nl
MakeGeenMakefile ==
    <<"m", "a", "k", "e", ":", " ", "*", "*", "*", " ", "G", "e", "e", "n", " ",
      "d", "o", "e", "l", "e", "n", " ", "o", "p", "g", "e", "g", "e", "v", "e",
      "n", " ", "e", "n", " ", "g", "e", "e", "n", " ", "M", "a", "k", "e", "f",
      "i", "l", "e", " ", "g", "e", "v", "o", "n", "d", "e", "n", ".", " ", " ",
      "G", "e", "s", "t", "o", "p", "t", ".">>
MakeStderrs == {<<>>, MakeNoMakefile, MakeGeenMakefile, MakeBroken}
\* the repository's Makefile: none, or one with rules for these targets
NoMakefile == [present |-> FALSE, targets |-> {}]
Makefile(targets) == [present |-> TRUE, targets |-> targets]

\* directories that exist; any other working directory makes subprocess.run raise
ExistingDirs == {"/work"}

\* Python values of hook_input.get("cwd") and of the environment look-ups
PyNone == [type |-> "NoneType", truthy |-> FALSE, path |-> ""]
PyStr(p) == [type |-> "str", truthy |-> p # "", path |-> p]
PyInt(b) == [type |-> "int", truthy |-> b, path |-> ""]
PyOr(a, b) == IF a.truthy THEN a ELSE b
\* stdin: not JSON, JSON that is no object, or an object with or without "cwd"
StdinPayloads ==
    {[json |-> FALSE, dict |-> FALSE, cwd |-> PyNone],
     [json |-> TRUE, dict |-> FALSE, cwd |-> PyNone]}
    \cup {[json |-> TRUE, dict |-> TRUE, cwd |-> v] :
            v \in {PyNone, PyStr(""), PyStr("/work"), PyStr("/missing"),
                   PyInt(FALSE), PyInt(TRUE)}}
ProjectDirEnvs == {PyNone, PyStr(""), PyStr("/work"), PyStr("/missing")}
OriginMain ==
    <<"o", "r", "i", "g", "i", "n", "/", "m", "a", "i", "n">>
Develop ==
    <<"d", "e", "v", "e", "l", "o", "p">>
RemoteTrackingRef ==
    <<"r", "e", "f", "s", "/", "r", "e", "m", "o", "t", "e", "s", "/", "o",
      "r", "i", "g", "i", "n", "/", "m", "a", "i", "n">>
Commit ==
    <<"c", "0", "f", "f", "e", "e">>
BaseRefEnvs == {OriginMain, Develop, <<>>}
AlwaysFetchEnvs ==
    {<<>>, <<"0">>, <<"1">>, <<" ", "Y", "e", "s", "\n">>, <<"o", "n">>}
MaxOutputEnvs ==
    {<<"1", "2", "0", "0", "0">>, <<"4">>, <<"x">>}

(* ------------------------------ messages ------------------------------- *)
MsgGitNotFound ==
    <<"g", "i", "t", " ", "n", "o", "t", " ", "f", "o", "u", "n", "d", " ",
      "o", "n", " ", "P", "A", "T", "H">>
MsgRemoteFailed ==
    <<"g", "i", "t", " ", "r", "e", "m", "o", "t", "e", " ", "f", "a", "i",
      "l", "e", "d", ":", " ">>
MsgNoOrigin ==
    <<"g", "i", "t", " ", "r", "e", "m", "o", "t", "e", " ", "'", "o", "r",
      "i", "g", "i", "n", "'", " ", "n", "o", "t", " ", "f", "o", "u", "n",
      "d">>
MsgFetchFailed ==
    <<"g", "i", "t", " ", "f", "e", "t", "c", "h", " ", "o", "r", "i", "g",
      "i", "n", " ", "m", "a", "i", "n", " ", "f", "a", "i", "l", "e", "d",
      ":", " ">>
MsgShowRefFailed ==
    <<"g", "i", "t", " ", "s", "h", "o", "w", "-", "r", "e", "f", " ", "f",
      "a", "i", "l", "e", "d">>
MsgCannotResolve ==
    <<"C", "a", "n", "n", "o", "t", " ", "r", "e", "s", "o", "l", "v", "e",
      " ">>
MsgStillMissing ==
    <<"o", "r", "i", "g", "i", "n", "/", "m", "a", "i", "n", " ", "s", "t",
      "i", "l", "l", " ", "m", "i", "s", "s", "i", "n", "g", " ", "a", "f",
      "t", "e", "r", " ", "f", "e", "t", "c", "h">>
MsgMergeBase ==
    <<"g", "i", "t", " ", "m", "e", "r", "g", "e", "-", "b", "a", "s", "e",
      " ">>
MsgHeadFailed ==
    <<" ", "H", "E", "A", "D", " ", "f", "a", "i", "l", "e", "d", ":", " ">>
MsgMergeBaseEmpty ==
    <<"g", "i", "t", " ", "m", "e", "r", "g", "e", "-", "b", "a", "s", "e",
      " ", "r", "e", "t", "u", "r", "n", "e", "d", " ", "e", "m", "p", "t",
      "y", " ", "o", "u", "t", "p", "u", "t">>
MsgDiffFailed ==
    <<"g", "i", "t", " ", "d", "i", "f", "f", " ", "-", "-", "n", "a", "m",
      "e", "-", "o", "n", "l", "y", " ">>
MsgDiffCachedFailed ==
    <<"g", "i", "t", " ", "d", "i", "f", "f", " ", "-", "-", "c", "a", "c",
      "h", "e", "d", " ", "-", "-", "n", "a", "m", "e", "-", "o", "n", "l",
      "y", " ">>
MsgFailed ==
    <<" ", "f", "a", "i", "l", "e", "d", ":", " ">>
MsgLsFilesFailed ==
    <<"g", "i", "t", " ", "l", "s", "-", "f", "i", "l", "e", "s", " ", "f",
      "a", "i", "l", "e", "d", ":", " ">>
MsgMakeNotFound ==
    <<"m", "a", "k", "e", " ", "n", "o", "t", " ", "f", "o", "u", "n", "d",
      " ", "o", "n", " ", "P", "A", "T", "H">>
MsgMakeQpFailed ==
    <<"m", "a", "k", "e", " ", "-", "q", "p", " ", "f", "a", "i", "l", "e",
      "d">>
MsgEnumerate ==
    <<"C", "o", "u", "l", "d", " ", "n", "o", "t", " ", "e", "n", "u", "m",
      "e", "r", "a", "t", "e", " ", "m", "a", "k", "e", " ", "t", "a", "r",
      "g", "e", "t", "s", ":", " ">>
MsgNoMakefile ==
    <<"n", "o", " ", "m", "a", "k", "e", "f", "i", "l", "e", " ", "f", "o",
      "u", "n", "d">>
MsgNoOutput ==
    <<"(", "n", "o", " ", "o", "u", "t", "p", "u", "t", " ", "c", "a", "p",
      "t", "u", "r", "e", "d", ")">>
MsgMake ==
    <<"m", "a", "k", "e", " ">>
Question ==
    <<"?">>

(* --------------------------- make targets ------------------------------ *)
RECURSIVE JoinWith(_, _)
\* sep.join(texts)
JoinWith(texts, sep) ==
    IF texts = <<>> THEN <<>>
    ELSE IF Len(texts) = 1 THEN texts[1]
    ELSE texts[1] \o sep \o JoinWith(Tail(texts), sep)

\* sub in t
Contains(t, sub) ==
    \E i \in 0..(Len(t) - Len(sub)) : SubSeq(t, i + 1, i + Len(sub)) = sub

RECURSIVE SplitFrom(_, _, _)
SplitFrom(t, word, out) ==
    IF t = <<>> THEN (IF word = <<>> THEN out ELSE Append(out, word))
    ELSE IF Head(t) \in Whitespace
         THEN SplitFrom(Tail(t), <<>>, IF word = <<>> THEN out ELSE Append(out, word))
         ELSE SplitFrom(Tail(t), Append(word, Head(t)), out)
\* str.split(): the words between runs of blanks
Split(t) == SplitFrom(t, <<>>, <<>>)

\* characters rule_re's first group cannot contain, besides blanks
RuleStops == {":", "#", "="}
FirstStop(line) ==
    IF \E i \in 1..Len(line) : line[i] \in RuleStops
    THEN CHOOSE i \in 1..Len(line) :
            line[i] \in RuleStops /\ \A j \in 1..(i - 1) : line[j] \notin RuleStops
    ELSE 0
\* rule_re matches: words up to the first of : # =, and that one is a colon
RuleMatches(line) ==
    /\ line # <<>>
    /\ Head(line) \notin Whitespace \cup RuleStops
    /\ FirstStop(line) > 0
    /\ line[FirstStop(line)] = ":"
\* group 1 of the match
RuleLhs(line) == RStrip(SubSeq(line, 1, FirstStop(line) - 1))

RECURSIVE parse_make_targets(_)
\* over the lines of make_stdout
parse_make_targets(lines) ==
    IF lines = <<>> THEN {}
    ELSE LET line == Head(lines)
             rest == parse_make_targets(Tail(lines))
         IN IF line = <<>> THEN rest
            ELSE IF Head(line) \in {"#", "\t", " "} THEN rest
            ELSE IF ~RuleMatches(line) THEN rest
            ELSE {t \in Range(Split(RuleLhs(line))) : ~Contains(t, <<"%">>)} \cup rest

is_missing_makefile(output) == Contains(Lower(output), MsgNoMakefile)

\* get_make_targets on a finished (or unstartable) `make -qp`:
\* p = [found, returncode, stdout (lines), stderr]; the result's targets are
\* meaningful only when ok
get_make_targets(p) ==
    IF ~p.found THEN [ok |-> FALSE, targets |-> {}, err |-> <<MsgMakeNotFound>>]
    ELSE IF p.returncode = 2
    THEN LET combined ==
                 Strip(Strip(p.stderr) \o <<"\n">> \o Strip(JoinWith(p.stdout, <<"\n">>)))
         IN IF is_missing_makefile(combined)
            THEN [ok |-> TRUE, targets |-> {}, err |-> NoneV]
            ELSE [ok |-> FALSE, targets |-> {},
                  err |-> IF combined # <<>> THEN <<combined>> ELSE <<MsgMakeQpFailed>>]
    ELSE [ok |-> TRUE, targets |-> parse_make_targets(p.stdout), err |-> NoneV]

\* run_make on the finished child process p = [returncode, stdout, stderr]
run_make(kind, targets, max_chars, p) ==
    IF targets = <<>>
    THEN [kind |-> kind, cmd |-> <<>>, exit_code |-> 0, stdout |-> <<>>, stderr |-> <<>>]
    ELSE [kind |-> kind,
          cmd |-> MsgMake \o JoinWith(targets, <<" ">>),
          exit_code |-> p.returncode,
          stdout |-> truncate(p.stdout, max_chars),
          stderr |-> truncate(p.stderr, max_chars)]

(* ---------------------------- format_reason ---------------------------- *)
ChangedListCap == 60

Blank == [line |-> "blank"]
FirstN(s, n) == SubSeq(s, 1, IF Len(s) < n THEN Len(s) ELSE n)

\* the failure section of one command
FailureLines(c) ==
    LET both == Filter(<<c.stdout, c.stderr>>, {c.stdout, c.stderr} \ {<<>>})
        combined == Strip(JoinWith(both, <<"\n">>))
    IN <<Blank,
         [line |-> "command_failed", exit_code |-> c.exit_code, cmd |-> c.cmd],
         [line |-> "fence"],
         [line |-> "output", text |-> IF combined # <<>> THEN combined ELSE MsgNoOutput],
         [line |-> "fence"]>>

\* FailureSections giving every command a section
RECURSIVE FailureSections_AllCommands(_)
FailureSections_AllCommands(commands) ==
    IF commands = <<>> THEN <<>>
    ELSE FailureLines(Head(commands)) \o FailureSections_AllCommands(Tail(commands))

RECURSIVE FailureSections(_)
FailureSections(commands) ==
    IF commands = <<>> THEN <<>>
    ELSE (IF Head(commands).exit_code # 0 THEN FailureLines(Head(commands)) ELSE <<>>)
         \o FailureSections(Tail(commands))

\* the lines of the reason, each a record tagged by the line's fixed wording
format_reason(st) ==
    LET ref == IF st.base_ref # <<>> THEN st.base_ref ELSE Question
        commit == IF Truthy(st.base_commit) THEN st.base_commit ELSE <<Question>>
        changed == st.changed_files
        detected ==
            (IF st.categories.python_ts THEN <<"Python/TypeScript">> ELSE <<>>)
            \o (IF st.categories.rust THEN <<"Rust">> ELSE <<>>)
            \o (IF st.categories.markdown THEN <<"Markdown">> ELSE <<>>)
    IN <<[line |-> "headline"]>>
       \o (IF Truthy(st.error) THEN <<Blank, [line |-> "error", text |-> st.error]>>
           ELSE <<>>)
       \o <<Blank, [line |-> "diff_base", base_ref |-> ref, base_commit |-> commit]>>
       \o <<Blank, [line |-> "changed_count", base_ref |-> ref, count |-> Len(changed)]>>
       \o [i \in 1..Len(FirstN(changed, ChangedListCap)) |->
             [line |-> "changed_file", path |-> changed[i]]]
       \o (IF Len(changed) > ChangedListCap
           THEN <<[line |-> "more", count |-> Len(changed) - ChangedListCap]>>
           ELSE <<>>)
       \o (IF detected # <<>> THEN <<Blank, [line |-> "detected", labels |-> detected]>>
           ELSE <<>>)
       \o (IF st.make_targets_requested # <<>>
           THEN <<Blank, [line |-> "requested", targets |-> st.make_targets_requested]>>
           ELSE <<>>)
       \o (IF st.make_targets_run # <<>>
           THEN <<[line |-> "run", targets |-> st.make_targets_run]>>
           ELSE <<>>)
       \o (IF st.make_targets_skipped # <<>>
           THEN <<[line |-> "skipped", targets |-> st.make_targets_skipped]>>
           ELSE <<>>)
       \o FailureSections(st.commands)
       \o <<Blank, [line |-> "closing"]>>

(* ------------------------------- state --------------------------------- *)
HookState0 ==
    [ok |-> TRUE,
     base_ref |-> OriginMain,
     base_commit |-> NoneV,
     changed_files |-> <<>>,
     categories |-> default_categories,
     make_targets_requested |-> <<>>,
     make_targets_run |-> <<>>,
     make_targets_skipped |-> <<>>,
     commands |-> <<>>,
     fetched |-> FALSE,
     error |-> NoneV]

VARIABLES
    pc,            \* position of the run in main / run_stop_checks / evaluate_changes
    exit_status,   \* <<status>> once the process has exited, <<>> while it runs
    stdout,        \* the payloads printed on standard output, in order
    state,         \* the HookState of run_stop_checks
    calls,         \* child processes started so far, in order
    start_cwd,     \* resolve_start_cwd's result
    base_ref, always_fetch, max_out,   \* parse_env's result
    fetched,       \* the `fetched` that ensure_base_ref is going to return
    changed,       \* local `changed` of changed_files
    printed,       \* the paths each listing query of changed_files printed (its
                   \* locals p and u), until changed_files returns
    code_targets, md_targets, commands,   \* locals of evaluate_changes
    trackingRef,   \* whether refs/remotes/origin/main exists in the repository
    makefile,      \* the repository's Makefile: whether there is one, its rules' targets
    inputs, outputs   \* a function called on its own: its arguments, what it returned

vars == <<pc, exit_status, stdout, state, calls, start_cwd, base_ref, always_fetch,
          max_out, fetched, changed, printed, code_targets, md_targets, commands,
          trackingRef, makefile, inputs, outputs>>

env_vars == <<start_cwd, base_ref, always_fetch, max_out>>
eval_vars == <<code_targets, md_targets, commands>>
call_vars == <<inputs, outputs>>

\* a child process that ran to exit status rc
Call(cmd, args, rc) == [cmd |-> cmd, args |-> args, rc |-> <<rc>>]
\* subprocess.run raised before there was a child process
NoCall(cmd, args) == [cmd |-> cmd, args |-> args, rc |-> <<>>]

Init ==
    /\ pc = "main"
    /\ exit_status = <<>>
    /\ stdout = <<>>
    /\ state = HookState0
    /\ calls = <<>>
    /\ start_cwd = ""
    /\ base_ref = OriginMain
    /\ always_fetch = FALSE
    /\ max_out = DefaultMaxOutput
    /\ fetched = FALSE
    /\ changed = {}
    /\ printed = <<>>
    /\ code_targets = <<>>
    /\ md_targets = <<>>
    /\ commands = <<>>
    /\ trackingRef \in BOOLEAN
    /\ makefile = NoMakefile
    /\ inputs = <<>>
    /\ outputs = <<>>

(* --------------------------- ways to finish ---------------------------- *)
\* `return 0` up to SystemExit(main()) without printing
ReturnZero == pc' = "exit" /\ exit_status' = <<0>> /\ stdout' = stdout
\* an exception nothing catches: traceback on stderr, exit status 1
Raise == pc' = "exit" /\ exit_status' = <<1>> /\ stdout' = stdout

block_and_print(st) ==
    /\ stdout' = Append(stdout, [decision |-> "block", reason |-> format_reason(st)])
    /\ pc' = "exit"
    /\ exit_status' = <<0>>

\* fail_state printing before it records the failure
fail_state_PrintsFirst(st, message) ==
    LET failed == [st EXCEPT !.ok = FALSE, !.error = message]
    IN state' = failed /\ block_and_print(st)

fail_state(st, message) ==
    LET failed == [st EXCEPT !.ok = FALSE, !.error = message]
    IN state' = failed /\ block_and_print(failed)

(* ------------------------------- main ---------------------------------- *)
parse_hook_input(stdin) ==
    IF stdin.json /\ stdin.dict THEN stdin ELSE [stdin EXCEPT !.cwd = PyNone]

\* hook_input.get("cwd") or os.environ.get("CLAUDE_PROJECT_DIR") or os.getcwd()
resolve_start_cwd(hook_input, projectDir) ==
    PyOr(PyOr(hook_input.cwd, projectDir), PyStr("/work"))

\* main up to the call of run_stop_checks, and the HookState it creates
Main ==
    /\ pc = "main"
    /\ \E stdin \in StdinPayloads, projectDir \in ProjectDirEnvs, refEnv \in BaseRefEnvs,
          fetchEnv \in AlwaysFetchEnvs, maxEnv \in MaxOutputEnvs :
         LET cwd_str == resolve_start_cwd(parse_hook_input(stdin), projectDir)
         IN IF cwd_str.type # "str"
            THEN \* Path(cwd_str) raises TypeError
                 Raise /\ UNCHANGED <<state, env_vars>>
            ELSE /\ start_cwd' = cwd_str.path
                 /\ base_ref' = refEnv
                 /\ always_fetch' = parse_bool_env(fetchEnv)
                 /\ max_out' = parse_max_output(maxEnv)
                 /\ state' = [HookState0 EXCEPT !.base_ref = refEnv]
                 /\ pc' = "which_git"
                 /\ UNCHANGED <<exit_status, stdout>>
    /\ UNCHANGED <<calls, fetched, changed, printed, eval_vars, trackingRef, makefile,
                 call_vars>>

\* shutil.which("git")
WhichGit ==
    /\ pc = "which_git"
    /\ \E found \in BOOLEAN :
         IF ~found THEN fail_state(state, <<MsgGitNotFound>>)
         ELSE pc' = "repo_root" /\ UNCHANGED <<exit_status, stdout, state>>
    /\ UNCHANGED <<calls, env_vars, fetched, changed, printed, eval_vars, trackingRef,
                 makefile, call_vars>>

\* EnsureBaseRefEntry letting the fetch policy reach every base ref
EnsureBaseRefEntry_PolicyFirst ==
    IF base_ref = OriginMain \/ always_fetch THEN "git_remote" ELSE "verify_ref"

\* where ensure_base_ref starts
EnsureBaseRefEntry ==
    IF base_ref = OriginMain THEN "git_remote" ELSE "verify_ref"

\* RepoRoot taking a failed query for a fatal error
RepoRoot_FailsOutsideRepo ==
    /\ pc = "repo_root"
    /\ IF start_cwd \notin ExistingDirs
       THEN /\ calls' = Append(calls, NoCall("git rev-parse --show-toplevel", <<>>))
            /\ Raise
            /\ state' = state
       ELSE \E rc \in GitExits, root \in {<<>>, <<"/", "w", "o", "r", "k">>} :
              /\ calls' = Append(calls, Call("git rev-parse --show-toplevel", <<>>, rc))
              /\ IF rc # 0 \/ root = <<>>
                 THEN fail_state(state, <<MsgCannotResolve, base_ref>>)
                 ELSE pc' = EnsureBaseRefEntry /\ UNCHANGED <<exit_status, stdout, state>>
    /\ UNCHANGED <<env_vars, fetched, changed, printed, eval_vars, trackingRef, makefile,
                 call_vars>>

RepoRoot ==
    /\ pc = "repo_root"
    /\ IF start_cwd \notin ExistingDirs
       THEN \* subprocess.run raises FileNotFoundError for the missing cwd
            /\ calls' = Append(calls, NoCall("git rev-parse --show-toplevel", <<>>))
            /\ Raise
       ELSE \E rc \in GitExits, root \in {<<>>, <<"/", "w", "o", "r", "k">>} :
              /\ calls' = Append(calls, Call("git rev-parse --show-toplevel", <<>>, rc))
              /\ IF rc # 0 \/ root = <<>>
                 THEN ReturnZero
                 ELSE pc' = EnsureBaseRefEntry /\ UNCHANGED <<exit_status, stdout>>
    /\ UNCHANGED <<state, env_vars, fetched, changed, printed, eval_vars, trackingRef,
                 makefile, call_vars>>

(* ----------------------------- RefResolver ----------------------------- *)
\* RefFailed allowing silently, as run_stop_checks does outside a repository
RefFailed_Allows(err, fetchedNow) ==
    state' = [state EXCEPT !.fetched = fetchedNow] /\ ReturnZero
\* RefFailed failing before `fetched` is recorded
RefFailed_DropsFetched(err, fetchedNow) == fail_state(state, err)

\* ensure_base_ref returns not ok: run_stop_checks records `fetched` and fails
RefFailed(err, fetchedNow) ==
    fail_state([state EXCEPT !.fetched = fetchedNow], err)

\* AfterRemote ignoring the fetch policy
AfterRemote_IgnoresPolicy == "ref_exists"

\* where ensure_origin_main_ref starts
AfterRemote == IF always_fetch THEN "fetch" ELSE "ref_exists"

\* ensure_origin_remote
GitRemote ==
    /\ pc = "git_remote"
    /\ \E rc \in GitExits, remotes \in SUBSET {"origin", "upstream"}, stderr \in StderrTexts :
         /\ calls' = Append(calls, Call("git remote", <<>>, rc))
         /\ IF rc # 0 THEN RefFailed(<<MsgRemoteFailed, stderr>>, FALSE)
            ELSE IF "origin" \notin remotes THEN RefFailed(<<MsgNoOrigin>>, FALSE)
            ELSE /\ pc' = AfterRemote
                 /\ UNCHANGED <<exit_status, stdout, state>>
    /\ UNCHANGED <<env_vars, fetched, changed, printed, eval_vars, trackingRef, makefile,
                 call_vars>>

\* exit statuses `git show-ref --verify --quiet` can give for the tracking ref
ShowRefExits == {IF trackingRef THEN 0 ELSE 1, 128}
\* ref_exists on a finished show-ref
ref_exists(rc, stderr) ==
    IF rc = 0 THEN [exists |-> TRUE, err |-> NoneV]
    ELSE IF rc = 1 THEN [exists |-> FALSE, err |-> NoneV]
    ELSE [exists |-> FALSE, err |-> IF stderr # <<>> THEN <<stderr>> ELSE <<MsgShowRefFailed>>]

\* ensure_origin_main_ref without always_fetch: the first ref_exists
RefExistsBeforeFetch ==
    /\ pc = "ref_exists"
    /\ \E rc \in ShowRefExits, stderr \in StderrTexts :
         LET r == ref_exists(rc, stderr)
         IN /\ calls' = Append(calls, Call("git show-ref --verify", <<RemoteTrackingRef>>, rc))
            /\ IF Truthy(r.err) THEN RefFailed(r.err, FALSE)
               ELSE /\ pc' = IF r.exists THEN "verify_ref" ELSE "fetch"
                    /\ UNCHANGED <<exit_status, stdout, state>>
    /\ UNCHANGED <<env_vars, fetched, changed, printed, eval_vars, trackingRef, makefile,
                 call_vars>>

\* where ensure_origin_main_ref goes after a successful fetch
AfterFetch == IF always_fetch THEN "verify_ref" ELSE "ref_exists_again"

\* fetch_origin_main, from either branch of ensure_origin_main_ref
Fetch ==
    /\ pc = "fetch"
    /\ \E rc \in GitExits, stderr \in StderrTexts, creates \in BOOLEAN :
         /\ calls' = Append(calls, Call("git fetch origin main", <<>>, rc))
         /\ fetched' = TRUE
         /\ IF rc # 0
            THEN /\ RefFailed(<<MsgFetchFailed, stderr>>, TRUE)
                 /\ trackingRef' = trackingRef
            ELSE /\ trackingRef' = (trackingRef \/ creates)
                 /\ pc' = AfterFetch
                 /\ UNCHANGED <<exit_status, stdout, state>>
    /\ UNCHANGED <<env_vars, changed, printed, eval_vars, makefile, call_vars>>

\* ensure_origin_main_ref: the ref_exists after the fetch
RefExistsAfterFetch ==
    /\ pc = "ref_exists_again"
    /\ \E rc \in ShowRefExits, stderr \in StderrTexts :
         LET r == ref_exists(rc, stderr)
         IN /\ calls' = Append(calls, Call("git show-ref --verify", <<RemoteTrackingRef>>, rc))
            /\ IF Truthy(r.err) THEN RefFailed(r.err, TRUE)
               ELSE IF ~r.exists THEN RefFailed(<<MsgStillMissing>>, TRUE)
               ELSE pc' = "verify_ref" /\ UNCHANGED <<exit_status, stdout, state>>
    /\ UNCHANGED <<env_vars, fetched, changed, printed, eval_vars, trackingRef, makefile,
                 call_vars>>

\* verify_ref, of origin/main or of another base ref; then ensure_base_ref returns
VerifyRef ==
    /\ pc = "verify_ref"
    /\ \E rc \in GitExits :
         /\ calls' = Append(calls, Call("git rev-parse --verify", <<base_ref>>, rc))
         /\ IF rc # 0 THEN RefFailed(<<MsgCannotResolve, base_ref>>, fetched)
            ELSE /\ state' = [state EXCEPT !.fetched = fetched]
                 /\ pc' = "merge_base"
                 /\ UNCHANGED <<exit_status, stdout>>
    /\ UNCHANGED <<env_vars, fetched, changed, printed, eval_vars, trackingRef, makefile,
                 call_vars>>

(* ----------------------------- DiffScanner ----------------------------- *)
MergeBase ==
    /\ pc = "merge_base"
    /\ \E rc \in GitExits, out \in {<<>>, Commit}, stderr \in StderrTexts :
         /\ calls' = Append(calls, Call("git merge-base", <<base_ref>>, rc))
         /\ IF rc # 0
            THEN fail_state(state, <<MsgMergeBase, base_ref, MsgHeadFailed, stderr>>)
            ELSE IF out = <<>> THEN fail_state(state, <<MsgMergeBaseEmpty>>)
            ELSE /\ state' = [state EXCEPT !.base_commit = <<out>>]
                 /\ pc' = "diff"
                 /\ UNCHANGED <<exit_status, stdout>>
    /\ UNCHANGED <<env_vars, fetched, changed, printed, eval_vars, trackingRef, makefile,
                 call_vars>>

\* the non-blank stripped lines of a listing
ListedPaths(lines) == {Strip(lines[i]) : i \in 1..Len(lines)} \ {<<>>}
\* what the loop over p.stdout.splitlines() adds to `changed`, for every listing
ListedSets == {ListedPaths(lines) : lines \in Listings}

\* what a git command prints depends on how it ends: a listing on success,
\* a diagnostic on failure
ListingsFor(rc) == IF rc = 0 THEN ListedSets ELSE {{}}
StderrFor(rc) == IF rc = 0 THEN {<<>>} ELSE StderrTexts

\* changed_files: git diff --name-only <base_commit>
DiffWorktree ==
    /\ pc = "diff"
    /\ \E rc \in GitExits : \E listed \in ListingsFor(rc), stderr \in StderrFor(rc) :
         /\ calls' = Append(calls, Call("git diff --name-only", state.base_commit, rc))
         /\ printed' = Append(printed, listed)
         /\ IF rc # 0
            THEN /\ fail_state(state, <<MsgDiffFailed, state.base_commit[1], MsgFailed, stderr>>)
                 /\ changed' = changed
            ELSE /\ changed' = changed \cup listed
                 /\ pc' = "diff_cached"
                 /\ UNCHANGED <<exit_status, stdout, state>>
    /\ UNCHANGED <<env_vars, fetched, eval_vars, trackingRef, makefile, call_vars>>

\* changed_files: git diff --cached --name-only <base_commit>
DiffCached ==
    /\ pc = "diff_cached"
    /\ \E rc \in GitExits : \E listed \in ListingsFor(rc), stderr \in StderrFor(rc) :
         /\ calls' = Append(calls, Call("git diff --cached --name-only", state.base_commit, rc))
         /\ printed' = Append(printed, listed)
         /\ IF rc # 0
            THEN /\ fail_state(state,
                               <<MsgDiffCachedFailed, state.base_commit[1], MsgFailed, stderr>>)
                 /\ changed' = changed
            ELSE /\ changed' = changed \cup listed
                 /\ pc' = "ls_files"
                 /\ UNCHANGED <<exit_status, stdout, state>>
    /\ UNCHANGED <<env_vars, fetched, eval_vars, trackingRef, makefile, call_vars>>

\* Scanned taking an empty list for a failure
Scanned_EmptyIsError(files) ==
    LET cats == detect_categories(files)
        requested == targets_for_categories(cats, IncludeNone)
    IN IF files = <<>>
       THEN fail_state([state EXCEPT !.changed_files = files], <<MsgMergeBaseEmpty>>)
       ELSE /\ state' = [state EXCEPT !.changed_files = files,
                                      !.categories = cats,
                                      !.make_targets_requested = requested]
            /\ IF requested = <<>> THEN ReturnZero
               ELSE pc' = "make_qp" /\ UNCHANGED <<exit_status, stdout>>

\* Scanned going on to the build tool with nothing requested
Scanned_AlwaysEnumerates(files) ==
    LET cats == detect_categories(files)
        requested == targets_for_categories(cats, IncludeNone)
    IN IF files = <<>>
       THEN state' = [state EXCEPT !.changed_files = files] /\ ReturnZero
       ELSE /\ state' = [state EXCEPT !.changed_files = files,
                                      !.categories = cats,
                                      !.make_targets_requested = requested]
            /\ pc' = "make_qp" /\ UNCHANGED <<exit_status, stdout>>

\* run_stop_checks once changed_files has returned `files`: store the list
\* and, unless it is empty, let evaluate_changes classify it and plan the targets
Scanned(files) ==
    LET cats == detect_categories(files)
        requested == targets_for_categories(cats, IncludeNone)
    IN IF files = <<>>
       THEN state' = [state EXCEPT !.changed_files = files] /\ ReturnZero
       ELSE /\ state' = [state EXCEPT !.changed_files = files,
                                      !.categories = cats,
                                      !.make_targets_requested = requested]
            /\ IF requested = <<>> THEN ReturnZero
               ELSE pc' = "make_qp" /\ UNCHANGED <<exit_status, stdout>>

\* LsFiles starting `changed` afresh with the untracked paths
LsFiles_OnlyUntracked ==
    /\ pc = "ls_files"
    /\ \E rc \in GitExits : \E listed \in ListingsFor(rc), stderr \in StderrFor(rc) :
         /\ calls' = Append(calls, Call("git ls-files --others", <<>>, rc))
         /\ printed' = Append(printed, listed)
         /\ IF rc # 0
            THEN /\ fail_state(state, <<MsgLsFilesFailed, stderr>>)
                 /\ changed' = changed
            ELSE /\ changed' = listed
                 /\ pc' = "sorted"
                 /\ UNCHANGED <<exit_status, stdout, state>>
    /\ UNCHANGED <<env_vars, fetched, eval_vars, trackingRef, makefile, call_vars>>

\* changed_files: git ls-files --others --exclude-standard
LsFiles ==
    /\ pc = "ls_files"
    /\ \E rc \in GitExits : \E listed \in ListingsFor(rc), stderr \in StderrFor(rc) :
         /\ calls' = Append(calls, Call("git ls-files --others", <<>>, rc))
         /\ printed' = Append(printed, listed)
         /\ IF rc # 0
            THEN /\ fail_state(state, <<MsgLsFilesFailed, stderr>>)
                 /\ changed' = changed
            ELSE /\ changed' = changed \cup listed
                 /\ pc' = "sorted"
                 /\ UNCHANGED <<exit_status, stdout, state>>
    /\ UNCHANGED <<env_vars, fetched, eval_vars, trackingRef, makefile, call_vars>>

\* changed_files returns `sorted(changed)` and run_stop_checks goes on with it
ReturnSorted ==
    /\ pc = "sorted"
    /\ Scanned(Sorted(changed))
    /\ printed' = <<>>
    /\ UNCHANGED <<calls, env_vars, fetched, changed, eval_vars, trackingRef, makefile,
                 call_vars>>

(* --------------------- TargetPlanner, CommandRunner -------------------- *)
\* Conclude taking only a positive exit status for a failure
Conclude_PositiveOnly(st, cmds) ==
    LET done == [st EXCEPT !.commands = cmds]
    IN IF cmds = <<>> THEN state' = done /\ ReturnZero
       ELSE IF \A i \in 1..Len(cmds) : cmds[i].exit_code <= 0
       THEN state' = done /\ ReturnZero
       ELSE LET blocked == [done EXCEPT !.ok = FALSE]
            IN state' = blocked /\ block_and_print(blocked)

\* Conclude printing the block decision without setting `ok`
Conclude_BlocksWithoutFlag(st, cmds) ==
    LET done == [st EXCEPT !.commands = cmds]
    IN IF cmds = <<>> THEN state' = done /\ ReturnZero
       ELSE IF \A i \in 1..Len(cmds) : cmds[i].exit_code = 0
       THEN state' = done /\ ReturnZero
       ELSE state' = done /\ block_and_print(done)

\* evaluate_changes once every group has run (or none was runnable)
Conclude(st, cmds) ==
    LET done == [st EXCEPT !.commands = cmds]
    IN IF cmds = <<>> THEN state' = done /\ ReturnZero
       ELSE IF \A i \in 1..Len(cmds) : cmds[i].exit_code = 0
       THEN state' = done /\ ReturnZero
       ELSE LET blocked == [done EXCEPT !.ok = FALSE]
            IN state' = blocked /\ block_and_print(blocked)

\* FirstGroup entering the code group without looking at its target list
FirstGroup_AlwaysCode(code, md) == "run_code"

\* where evaluate_changes goes once the targets are known
FirstGroup(code, md) ==
    IF code # <<>> THEN "run_code" ELSE IF md # <<>> THEN "run_markdown" ELSE "exit"
\* where it goes after the code group
AfterCode(md) == IF md # <<>> THEN "run_markdown" ELSE "exit"

\* outcomes of `make -qp`, each with the Makefile behind it: make missing; a
\* query that answers (0 or 1) with any selection of MakeDbLines and, unless
\* the Makefile has a rule for typecheck, possibly MakeDbNotATarget; a query
\* that fails (2), without a Makefile or with a broken one, having printed
\* nothing or the first line; a make killed (-9) before or after the first
\* rule
MakeQueries ==
    {[found |-> FALSE, returncode |-> 2, stdout |-> <<>>, stderr |-> <<>>, makefile |-> m] :
       m \in {NoMakefile, Makefile({CheckFmt, Lint})}}
    \cup UNION {{[found |-> TRUE, returncode |-> rc,
                   stdout |-> SubSeqAt(MakeDbLines, I, 1)
                              \o (IF nat THEN MakeDbNotATarget ELSE <<>>),
                   stderr |-> <<>>,
                   makefile |-> Makefile(UNION {MakeDbDefines[i] : i \in I})] :
                    rc \in {0, 1}, nat \in (IF 4 \in I THEN {FALSE} ELSE BOOLEAN)} :
                 I \in SUBSET (1..Len(MakeDbLines))}
    \cup {[found |-> TRUE, returncode |-> 2,
            stdout |-> SubSeqAt(MakeDbLines, I, 1), stderr |-> e,
            makefile |-> IF e \in {MakeNoMakefile, MakeGeenMakefile} THEN NoMakefile
                         ELSE Makefile({})] :
             I \in {{}, {1}}, e \in MakeStderrs}
    \cup {[found |-> TRUE, returncode |-> -9,
            stdout |-> SubSeqAt(MakeDbLines, I, 1), stderr |-> <<>>,
            makefile |-> Makefile({CheckFmt, Lint})] :
             I \in {{}, {2}}}

\* what get_make_targets makes of each of them
MakeQueryOutcomes ==
    {[found |-> p.found, returncode |-> p.returncode, result |-> get_make_targets(p),
      makefile |-> p.makefile] :
       p \in MakeQueries}

\* get_make_targets, then the partition of the requested targets
MakeQp ==
    /\ pc = "make_qp"
    /\ \E o \in MakeQueryOutcomes :
         LET found == o.found
             rc == o.returncode
             r == o.result
             requested == state.make_targets_requested
             run_targets == Filter(requested, r.targets)
             skip_targets == Filter(requested, Range(requested) \ r.targets)
             code == Filter(targets_for_categories(state.categories, Include(CODE_CATS)),
                            r.targets)
             md == Filter(targets_for_categories(state.categories, Include(MD_CATS)),
                          r.targets)
             planned == [state EXCEPT !.make_targets_run = run_targets,
                                      !.make_targets_skipped = skip_targets]
         IN /\ calls' = Append(calls, IF found THEN Call("make -qp", <<>>, rc)
                                      ELSE NoCall("make -qp", <<>>))
            /\ makefile' = o.makefile
            /\ IF ~r.ok
               THEN /\ fail_state(state, <<MsgEnumerate>> \o r.err)
                    /\ UNCHANGED eval_vars
               ELSE /\ code_targets' = code
                    /\ md_targets' = md
                    /\ commands' = <<>>
                    /\ IF FirstGroup(code, md) = "exit"
                       THEN Conclude(planned, <<>>)
                       ELSE /\ state' = planned
                            /\ pc' = FirstGroup(code, md)
                            /\ UNCHANGED <<exit_status, stdout>>
    /\ UNCHANGED <<env_vars, fetched, changed, printed, trackingRef, call_vars>>

\* how `make <targets>` can end: make stops with status 2 at a target the
\* Makefile has no rule for
MakeRunsFor(targets) ==
    IF Range(targets) \subseteq makefile.targets THEN MakeRuns
    ELSE {p \in MakeRuns : p.returncode = 2}

\* RunCode giving up on the markdown group when the code group fails
RunCode_AbortsOnFailure ==
    /\ pc = "run_code"
    /\ \E p \in MakeRunsFor(code_targets) :
         LET result == run_make("code", code_targets, max_out, p)
         IN /\ calls' = Append(calls, Call("make", code_targets, p.returncode))
            /\ commands' = Append(commands, result)
            /\ IF AfterCode(md_targets) = "exit" \/ result.exit_code # 0
               THEN Conclude(state, commands')
               ELSE /\ pc' = AfterCode(md_targets)
                    /\ UNCHANGED <<exit_status, stdout, state>>
    /\ UNCHANGED <<env_vars, fetched, changed, printed, code_targets, md_targets, trackingRef,
                 makefile, call_vars>>

\* RunCode setting `ok` as soon as the code group fails, before the markdown group
RunCode_FlagsFailureEarly ==
    /\ pc = "run_code"
    /\ \E p \in MakeRunsFor(code_targets) :
         LET result == run_make("code", code_targets, max_out, p)
         IN /\ calls' = Append(calls, Call("make", code_targets, p.returncode))
            /\ commands' = Append(commands, result)
            /\ IF AfterCode(md_targets) = "exit"
               THEN Conclude(state, commands')
               ELSE /\ pc' = AfterCode(md_targets)
                    /\ state' = [state EXCEPT !.ok = (result.exit_code = 0)]
                    /\ UNCHANGED <<exit_status, stdout>>
    /\ UNCHANGED <<env_vars, fetched, changed, printed, code_targets, md_targets, trackingRef,
                 makefile, call_vars>>

\* the code group
RunCode ==
    /\ pc = "run_code"
    /\ \E p \in MakeRunsFor(code_targets) :
         LET result == run_make("code", code_targets, max_out, p)
         IN /\ calls' = Append(calls, Call("make", code_targets, p.returncode))
            /\ commands' = Append(commands, result)
            /\ IF AfterCode(md_targets) = "exit"
               THEN Conclude(state, commands')
               ELSE /\ pc' = AfterCode(md_targets)
                    /\ UNCHANGED <<exit_status, stdout, state>>
    /\ UNCHANGED <<env_vars, fetched, changed, printed, code_targets, md_targets, trackingRef,
                 makefile, call_vars>>

\* the markdown group
RunMarkdown ==
    /\ pc = "run_markdown"
    /\ \E p \in MakeRunsFor(md_targets) :
         LET result == run_make("markdown", md_targets, max_out, p)
         IN /\ calls' = Append(calls, Call("make", md_targets, p.returncode))
            /\ commands' = Append(commands, result)
            /\ Conclude(state, commands')
    /\ UNCHANGED <<env_vars, fetched, changed, printed, code_targets, md_targets, trackingRef,
                 makefile, call_vars>>

(* --------------------------- specification ----------------------------- *)
Next ==
    \/ Main
    \/ WhichGit
    \/ RepoRoot
    \/ GitRemote
    \/ RefExistsBeforeFetch
    \/ Fetch
    \/ RefExistsAfterFetch
    \/ VerifyRef
    \/ MergeBase
    \/ DiffWorktree
    \/ DiffCached
    \/ LsFiles
    \/ ReturnSorted
    \/ MakeQp
    \/ RunCode
    \/ RunMarkdown

Spec == Init /\ [][Next]_vars

(* --------------------- functions called on their own ------------------- *)
\* The pure functions of the hook, each called on arguments drawn from a
\* bounded set while the hook itself does not run.
hook_vars == <<pc, exit_status, stdout, state, calls, start_cwd, base_ref, always_fetch,
               max_out, fetched, changed, printed, code_targets, md_targets, commands,
               trackingRef, makefile>>
HookAtRest ==
    /\ pc = "main"
    /\ exit_status = <<>>
    /\ stdout = <<>>
    /\ state = HookState0
    /\ calls = <<>>
    /\ start_cwd = ""
    /\ base_ref = OriginMain
    /\ always_fetch = FALSE
    /\ max_out = DefaultMaxOutput
    /\ fetched = FALSE
    /\ changed = {}
    /\ printed = <<>>
    /\ code_targets = <<>>
    /\ md_targets = <<>>
    /\ commands = <<>>
    /\ trackingRef = FALSE
    /\ makefile = NoMakefile

\* the sequences over S of length at most n
SeqsUpTo(S, n) == UNION {[1..k -> S] : k \in 0..n}

\* length of the lists dedup_preserve_order is called on
MaxItems == 3
\* length of the texts truncate is called on
MaxTextLen == 6
\* largest budget POST_TURN_MAX_OUTPUT_CHARS names, besides the default
MaxBudget == 5
\* length of the file lists detect_categories is called on
MaxFiles == 2

\* the 8 category presence maps, with each `include`
PlannerInputs ==
    {[fn |-> "targets_for_categories", categories |-> c, include |-> inc] :
       c \in [python_ts : BOOLEAN, rust : BOOLEAN, markdown : BOOLEAN],
       inc \in {IncludeNone, Include(CODE_CATS), Include(MD_CATS)}}
DedupInputs ==
    {[fn |-> "dedup_preserve_order", items |-> items] :
       items \in SeqsUpTo({CheckFmt, Lint, Typecheck, Markdownlint}, MaxItems)}
\* captured output, and the budget as the environment spells it: a number
\* from 0 to MaxBudget, a negative number, or no number (the default)
TruncateInputs ==
    {[fn |-> "truncate", text |-> text, max_output_chars |-> value] :
       text \in SeqsUpTo({"a", "b"}, MaxTextLen),
       value \in {<<Digits[n + 1]>> : n \in 0..MaxBudget} \cup {<<"-", "1">>, <<"x">>}}
\* paths with known and unknown suffixes, in either case, and without one:
\* no dot, a leading dot, a dot in a directory name only
ClassifierPaths ==
    Range(PathUniverse)
    \cup {<<"M", "a", "k", "e", "f", "i", "l", "e">>,
          <<"a", ".", "p", "y", "/", "b">>,
          <<"x", ".", "d", ".", "T", "s", "x">>}
ClassifierInputs ==
    {[fn |-> "detect_categories", files |-> files] :
       files \in SeqsUpTo(ClassifierPaths, MaxFiles)}

\* how far the changed files may exceed the cap of the reason's listing
MaxOverCap == 2
\* the i-th of a long list of changed files: Python and markdown in turn,
\* named in ascending order
NumberedPath(i) ==
    <<"f", Digits[(i \div 10) + 1], Digits[(i % 10) + 1], ".">>
    \o (IF i % 2 = 1 THEN <<"p", "y">> ELSE <<"m", "d">>)
\* the targets the Makefile has rules for, by group
FormatTargets(kind) == IF kind = "code" THEN <<CheckFmt, Lint>> ELSE <<Markdownlint>>
\* what evaluate_changes can leave in `commands` when it blocks
FailedCommandLists ==
    LET results(kind) ==
            {run_make(kind, FormatTargets(kind), DefaultMaxOutput, p) : p \in MakeRuns}
        lists == {<<c>> : c \in results("code") \cup results("markdown")}
                 \cup {<<c, m>> : c \in results("code"), m \in results("markdown")}
    IN {cmds \in lists : \E i \in 1..Len(cmds) : cmds[i].exit_code # 0}
\* the states format_reason is called on once the changed files are known:
\* after a failed enumeration, and after a failed group
FormatInputs ==
    {[fn |-> "format_reason", state |-> st] :
       st \in UNION {
          LET files == [i \in 1..n |-> NumberedPath(i)]
              cats == [python_ts |-> TRUE, rust |-> FALSE, markdown |-> n >= 2]
              requested == targets_for_categories(cats, IncludeNone)
              scanned == [HookState0 EXCEPT !.ok = FALSE,
                                            !.base_commit = <<Commit>>,
                                            !.changed_files = files,
                                            !.categories = cats,
                                            !.make_targets_requested = requested]
          IN {[scanned EXCEPT !.error = <<MsgEnumerate, MakeBroken>>]}
             \cup {LET run == UNION {Range(FormatTargets(cmds[i].kind)) : i \in 1..Len(cmds)}
                   IN [scanned EXCEPT
                         !.make_targets_run = Filter(requested, run),
                         !.make_targets_skipped = Filter(requested, Range(requested) \ run),
                         !.commands = cmds] :
                     cmds \in {l \in FailedCommandLists :
                                 cats.markdown \/ \A i \in 1..Len(l) : l[i].kind = "code"}} :
          n \in {1, 2} \cup (ChangedListCap - 1)..(ChangedListCap + MaxOverCap)}}

CallInit ==
    /\ HookAtRest
    /\ inputs \in PlannerInputs \cup DedupInputs \cup TruncateInputs \cup ClassifierInputs
                 \cup FormatInputs
    /\ outputs = <<>>

\* requested = targets_for_categories(cats, include)
CallTargetsForCategories ==
    /\ inputs.fn = "targets_for_categories"
    /\ outputs = <<>>
    /\ outputs' = <<targets_for_categories(inputs.categories, inputs.include)>>
    /\ UNCHANGED <<hook_vars, inputs>>

\* dedup_preserve_order(items), on the list given or on the list returned last
CallDedup ==
    /\ \/ inputs.fn = "dedup_preserve_order"
       \/ inputs.fn = "targets_for_categories" /\ outputs # <<>>
    /\ Len(outputs) < 2
    /\ LET items == IF outputs = <<>> THEN inputs.items ELSE outputs[Len(outputs)]
       IN outputs' = Append(outputs, dedup_preserve_order(items))
    /\ UNCHANGED <<hook_vars, inputs>>

\* truncate(p.stdout, max_out) with max_out as parse_env gives it, on the text
\* given or on the text returned last
CallTruncate ==
    /\ inputs.fn = "truncate"
    /\ Len(outputs) < 2
    /\ LET text == IF outputs = <<>> THEN inputs.text ELSE outputs[Len(outputs)]
       IN outputs' = Append(outputs, truncate(text, parse_max_output(inputs.max_output_chars)))
    /\ UNCHANGED <<hook_vars, inputs>>

\* cats = detect_categories(state.changed_files)
CallDetectCategories ==
    /\ inputs.fn = "detect_categories"
    /\ outputs = <<>>
    /\ outputs' = <<detect_categories(inputs.files)>>
    /\ UNCHANGED <<hook_vars, inputs>>

\* payload = {"decision": "block", "reason": format_reason(state)}
CallFormatReason ==
    /\ inputs.fn = "format_reason"
    /\ outputs = <<>>
    /\ outputs' = <<format_reason(inputs.state)>>
    /\ UNCHANGED <<hook_vars, inputs>>

CallNext ==
    \/ CallTargetsForCategories
    \/ CallDedup
    \/ CallTruncate
    \/ CallDetectCategories
    \/ CallFormatReason

CallSpec == CallInit /\ [][CallNext]_vars

(* ------------------------------ properties ----------------------------- *)
Exited == pc = "exit"
Last(s) == s[Len(s)]
\* positions in `calls` of the runs of one command
CallsOf(cmd) == {i \in 1..Len(calls) : calls[i].cmd = cmd}
\* the block payload main would print for the final state
BlockPayload == [decision |-> "block", reason |-> format_reason(state)]
\* the caller's reading of a finished run
Blocked == Exited /\ exit_status = <<0>> /\ stdout # <<>>
Allowed == Exited /\ exit_status = <<0>> /\ stdout = <<>>
\* the verification groups that have been executed
GroupRuns == CallsOf("make")

\* C1: every invocation of main ends with exit status 0, whatever stdin, the
\* environment, git and make do.
C1_AlwaysExitsZero == Exited => exit_status = <<0>>

\* C2: standard output receives exactly one decision object {decision: block,
\* reason: format_reason(state)} when the outcome is block and nothing when it
\* is allow; nothing is printed before the end and never more than once.
C2_OneDecisionOrNothing ==
    /\ Len(stdout) <= 1
    /\ stdout # <<>> => Exited /\ ~state.ok /\ stdout[1] = BlockPayload
    /\ Exited /\ ~state.ok => Len(stdout) = 1
    /\ Exited /\ state.ok => stdout = <<>>
C2_Witness ==
    /\ Exited
    /\ Len(stdout) = 1
    /\ Truthy(state.error)
    /\ state.changed_files # <<>>

\* C3: when at least one group has been executed, the decision is allow if and
\* only if every executed group exited with status zero, and block otherwise.
C3_AllowIffAllZero ==
    Exited /\ GroupRuns # {} =>
        /\ Allowed <=> \A i \in GroupRuns : calls[i].rc = <<0>>
        /\ Blocked <=> \E i \in GroupRuns : calls[i].rc # <<0>>
C3_Witness ==
    /\ Blocked
    /\ Cardinality(GroupRuns) = 2
    /\ \E i \in GroupRuns : calls[i].rc = <<0>>
    /\ \E i \in GroupRuns : calls[i].rc = <<-9>>

\* the commands of the RefResolver, of the later stages, of the build tool
RefCmds ==
    {"git remote", "git show-ref --verify", "git fetch origin main", "git rev-parse --verify"}
DiffCmds ==
    {"git merge-base", "git diff --name-only", "git diff --cached --name-only",
     "git ls-files --others"}
MakeCmds == {"make -qp", "make"}
Invoked(cmds) == \E i \in 1..Len(calls) : calls[i].cmd \in cmds
Kinds(cmds) == {cmds[i].kind : i \in 1..Len(cmds)}

\* the markdown group, the code group have a runnable target
MarkdownRunnable ==
    state.categories.markdown /\ Markdownlint \in Range(state.make_targets_run)
CodeRunnable ==
    /\ state.categories.python_ts \/ state.categories.rust
    /\ Range(state.make_targets_run) \cap {CheckFmt, Lint, Typecheck} # {}

\* C4: the groups are independent: a group with a runnable target is executed
\* whether the other group succeeded, failed or was not run, and every executed
\* group's result is recorded in `commands`.
C4_GroupsIndependent ==
    Exited /\ exit_status = <<0>> =>
        /\ MarkdownRunnable <=> "markdown" \in Kinds(state.commands)
        /\ CodeRunnable <=> "code" \in Kinds(state.commands)
        /\ Len(state.commands) = Cardinality(GroupRuns)
        /\ \E f \in [1..Len(state.commands) -> GroupRuns] :
              \A i \in 1..Len(state.commands) :
                 /\ \A j \in 1..Len(state.commands) : i < j => f[i] < f[j]
                 /\ calls[f[i]].rc = <<state.commands[i].exit_code>>
C4_Witness ==
    /\ Exited
    /\ Len(state.commands) = 2
    /\ state.commands[1].kind = "code" /\ state.commands[1].exit_code # 0
    /\ state.commands[2].kind = "markdown" /\ state.commands[2].exit_code = 0

\* the run ended inside ensure_base_ref: every way out of it but success
RefResolutionFailed == Exited /\ calls # <<>> /\ Last(calls).cmd \in RefCmds

\* C5: if baseline-ref resolution fails, the decision is block with the error
\* recorded and no later stage is attempted: baseCommit stays unset,
\* changedFiles empty, the categories all false, the build tool uninvoked.
C5_RefFailureBlocks ==
    /\ RefResolutionFailed =>
          /\ Blocked /\ ~state.ok /\ Truthy(state.error)
          /\ state.base_commit = NoneV
          /\ state.changed_files = <<>>
          /\ state.categories = default_categories
          /\ ~Invoked(DiffCmds \cup MakeCmds)
    /\ Invoked(DiffCmds \cup MakeCmds) =>
          \E i \in CallsOf("git rev-parse --verify") :
             calls[i].rc = <<0>> /\ \A j \in 1..(i - 1) : calls[j].cmd \notin DiffCmds \cup MakeCmds
C5_Witness ==
    /\ RefResolutionFailed
    /\ Last(calls).cmd = "git fetch origin main"
    /\ \E i \in CallsOf("git show-ref --verify") : calls[i].rc = <<1>>

\* C6: at most one fetch is performed per invocation, and at termination
\* `fetched` is true if and only if a fetch was invoked.
C6_OneFetchRecorded ==
    /\ Cardinality(CallsOf("git fetch origin main")) <= 1
    /\ Exited => (state.fetched <=> CallsOf("git fetch origin main") # {})
C6_Witness ==
    /\ Exited
    /\ state.fetched
    /\ Last(calls).cmd = "git fetch origin main"

\* ensure_origin_main_ref has been entered and left
RefEnsured ==
    /\ \E i \in CallsOf("git remote") : i < Len(calls)
    /\ pc \notin {"ref_exists", "fetch"}
\* the existence check made before any fetch, if there was one
FirstChecks ==
    {i \in CallsOf("git show-ref --verify") :
        \A j \in CallsOf("git fetch origin main") : i < j}

\* C7: with base ref origin/main, origin configured and a local existence check
\* that does not error, a fetch is performed if and only if the policy forces
\* it or refs/remotes/origin/main does not exist locally.
C7_FetchIffForcedOrMissing ==
    /\ base_ref = OriginMain
    /\ RefEnsured
    /\ \A i \in FirstChecks : calls[i].rc \in {<<0>>, <<1>>}
    => (CallsOf("git fetch origin main") # {}
          <=> always_fetch \/ \E i \in FirstChecks : calls[i].rc = <<1>>)
C7_Witness ==
    /\ base_ref = OriginMain
    /\ ~always_fetch
    /\ pc = "merge_base"
    /\ \E i \in FirstChecks : calls[i].rc = <<0>>
    /\ CallsOf("git fetch origin main") = {}

\* C8: after any fetch the remote-tracking ref's existence is re-verified, and
\* the pipeline never goes on to the merge-base after a fetch with the
\* remote-tracking ref absent.
C8_ReverifiedAfterFetch ==
    \A i \in CallsOf("git fetch origin main") :
       \A j \in CallsOf("git rev-parse --verify") \cup CallsOf("git merge-base") :
          /\ \E k \in CallsOf("git show-ref --verify") : i < k /\ k < j
          /\ calls[j].cmd = "git merge-base" => trackingRef

\* C9: with a base ref other than origin/main, resolution checks no remote and
\* fetches nothing whatever the fetch policy: `fetched` stays false and the only
\* check is that the ref resolves, which is fatal if it does not.
C9_OtherRefNoRemote ==
    base_ref # OriginMain =>
        /\ ~Invoked({"git remote", "git show-ref --verify", "git fetch origin main"})
        /\ ~fetched /\ ~state.fetched
        /\ \A i \in CallsOf("git rev-parse --verify") :
              /\ calls[i].args = <<base_ref>>
              /\ calls[i - 1].cmd = "git rev-parse --show-toplevel"
              /\ calls[i].rc # <<0>> =>
                    i = Len(calls) /\ Blocked /\ ~state.ok /\ Truthy(state.error)
        /\ Invoked(DiffCmds) => \E i \in CallsOf("git rev-parse --verify") : calls[i].rc = <<0>>
C9_Witness ==
    /\ base_ref = Develop
    /\ always_fetch
    /\ Blocked
    /\ calls # <<>>
    /\ Last(calls).cmd = "git rev-parse --verify"

\* the diff stage has computed the changed-file set
DiffDone ==
    /\ \E i \in CallsOf("git ls-files --others") : calls[i].rc = <<0>>
    /\ pc # "sorted"

\* C10: if the changed-file set computed by the diff stage is empty, the
\* decision is allow, `error` is unset, `ok` is true, `commands` is empty and
\* the build tool is never invoked.
C10_NoChangesAllow ==
    DiffDone /\ changed = {} =>
        /\ Allowed
        /\ state.changed_files = <<>>
        /\ state.error = NoneV
        /\ state.ok
        /\ state.commands = <<>>
        /\ ~Invoked(MakeCmds)
C10_Witness ==
    /\ DiffDone
    /\ changed = {}
    /\ Exited
    /\ state.base_commit = <<Commit>>

\* the extensions of the three categories
KnownExts == PY_TS_EXTS \cup RUST_EXTS \cup MD_EXTS
\* the diff stage found changes, none of them with a known extension
OnlyUnknownChanged ==
    /\ DiffDone
    /\ changed # {}
    /\ \A f \in changed : Lower(PathSuffix(f)) \notin KnownExts

\* C11: if every changed file has an extension outside the three known
\* categories, or none, the decision is allow, requestedTargets is empty, the
\* three category flags are false and no command is executed.
C11_UnknownOnlyAllow ==
    OnlyUnknownChanged =>
        /\ Allowed
        /\ state.ok /\ state.error = NoneV
        /\ state.changed_files = Sorted(changed)
        /\ state.make_targets_requested = <<>>
        /\ state.categories = default_categories
        /\ state.commands = <<>>
        /\ ~Invoked(MakeCmds)
C11_Witness ==
    /\ OnlyUnknownChanged
    /\ Exited
    /\ state.changed_files = <<PathUniverse[4]>>

\* get_make_targets has returned a target set
Enumerated ==
    /\ Invoked({"make -qp"})
    /\ ~(Last(calls).cmd = "make -qp" /\ ~state.ok)

\* run and skipped split requested: both in its order, nothing lost or shared
PartitionsRequested ==
    LET requested == state.make_targets_requested
        run == state.make_targets_run
        skipped == state.make_targets_skipped
    IN /\ run = Filter(requested, Range(run))
       /\ skipped = Filter(requested, Range(skipped))
       /\ Range(run) \cap Range(skipped) = {}
       /\ Range(run) \cup Range(skipped) = Range(requested)

\* C12: after target enumeration succeeds, runTargets and skippedTargets
\* partition requestedTargets in its order: runTargets is exactly the
\* requested targets the build configuration defines, skippedTargets exactly
\* those it does not; a skipped target alone never makes the decision block.
C12_RunSkippedPartition ==
    Enumerated =>
        /\ PartitionsRequested
        /\ Range(state.make_targets_run)
              = Range(state.make_targets_requested) \cap makefile.targets
        /\ Range(state.make_targets_skipped)
              = Range(state.make_targets_requested) \ makefile.targets
        /\ Blocked => \E i \in GroupRuns : calls[i].rc # <<0>>
        /\ Exited /\ (\A i \in GroupRuns : calls[i].rc = <<0>>) => Allowed

\* no element occurs twice
NoDuplicates(s) == \A i, j \in 1..Len(s) : s[i] = s[j] => i = j
\* where x first occurs in s
FirstIndex(s, x) == CHOOSE i \in 1..Len(s) : s[i] = x /\ \A j \in 1..(i - 1) : s[j] # x
\* out holds the distinct elements of items, in the order of their first occurrence
FirstSeenOrder(items, out) ==
    /\ NoDuplicates(out)
    /\ Range(out) = Range(items)
    /\ \A i, j \in 1..Len(out) :
          i < j => FirstIndex(items, out[i]) < FirstIndex(items, out[j])
\* the target lists of the enabled categories, one after the other
EnabledTargets(categories) ==
    (IF categories.python_ts THEN <<CheckFmt, Lint, Typecheck>> ELSE <<>>)
    \o (IF categories.rust THEN <<CheckFmt, Lint>> ELSE <<>>)
    \o (IF categories.markdown THEN <<Markdownlint>> ELSE <<>>)

\* C13: for each of the 8 category presence maps, requestedTargets is the
\* concatenation of the enabled categories' target lists in the order
\* python_ts, rust, markdown with later duplicates removed: no duplicates,
\* exactly the enabled categories' targets, in first-seen order; and
\* deduplicating again changes nothing, as for any list.
C13_RequestedDedupInOrder ==
    /\ inputs.fn = "targets_for_categories" /\ inputs.include = IncludeNone
       /\ outputs # <<>>
       => FirstSeenOrder(EnabledTargets(inputs.categories), outputs[1])
    /\ inputs.fn = "dedup_preserve_order" /\ outputs # <<>>
       => FirstSeenOrder(inputs.items, outputs[1])
    /\ inputs.fn \in {"targets_for_categories", "dedup_preserve_order"}
       /\ Len(outputs) = 2
       => outputs[2] = outputs[1]
C13_Witness ==
    /\ inputs.fn = "targets_for_categories" /\ inputs.include = IncludeNone
    /\ inputs.categories = [python_ts |-> TRUE, rust |-> TRUE, markdown |-> TRUE]
    /\ outputs = <<<<CheckFmt, Lint, Typecheck, Markdownlint>>,
                   <<CheckFmt, Lint, Typecheck, Markdownlint>>>>

\* the enumeration query, if it has been made
Queries == CallsOf("make -qp")
\* it answered: make -q exits 0 or 1 when it could read the Makefile
QueryAnswered == \E i \in Queries : calls[i].rc \in {<<0>>, <<1>>}
\* it reported that there is no build configuration
QueryFoundNoMakefile == \E i \in Queries : calls[i].rc = <<2>> /\ ~makefile.present
\* it failed otherwise: make is absent, or ended with another status
QueryFailed == Queries # {} /\ ~QueryAnswered /\ ~QueryFoundNoMakefile

\* C14: when a target is requested and the enumeration query fails for any
\* reason other than "no build configuration present" (any failing exit status
\* of the query, or the build tool being absent), the run is fatal: it blocks
\* with a target-enumeration error and no verification command is executed.
C14_EnumerationFailureBlocks ==
    QueryFailed =>
        /\ state.make_targets_requested # <<>>
        /\ Blocked /\ ~state.ok
        /\ Len(state.error) = 2 /\ state.error[1] = MsgEnumerate /\ state.error[2] # <<>>
        /\ state.commands = <<>>
        /\ GroupRuns = {}

\* none of the requested targets has a rule, or there is no Makefile at all
NothingRunnable ==
    \/ QueryFoundNoMakefile
    \/ QueryAnswered /\ Range(state.make_targets_requested) \cap makefile.targets = {}

\* C15: if no requested target is runnable, because the project has no build
\* configuration or because it defines none of the requested targets, both
\* groups are empty and the decision is allow: runTargets empty, skippedTargets
\* equal to requestedTargets, commands empty, nothing executed, no error.
C15_NothingRunnableAllows ==
    NothingRunnable =>
        /\ Allowed
        /\ state.ok /\ state.error = NoneV
        /\ state.make_targets_run = <<>>
        /\ state.make_targets_skipped = state.make_targets_requested
        /\ state.commands = <<>>
        /\ GroupRuns = {}

\* the repository-root query ran and failed
NotInWorkTree ==
    /\ calls # <<>>
    /\ calls[1].cmd = "git rev-parse --show-toplevel"
    /\ calls[1].rc \notin {<<>>, <<0>>}

\* C16: if the working directory is not inside a version-control working tree
\* (the repository-root query fails), the run allows silently: nothing is
\* printed and no ref resolution, fetch, diff, enumeration or verification
\* command is attempted.
C16_OutsideRepoAllowsSilently ==
    /\ NotInWorkTree =>
          /\ Allowed
          /\ Len(calls) = 1
          /\ state = [HookState0 EXCEPT !.base_ref = base_ref]
    /\ Len(calls) > 1 => calls[1].rc = <<0>>
C16_Witness ==
    /\ NotInWorkTree
    /\ Exited
    /\ calls[1].rc = <<128>>
    /\ base_ref = Develop /\ always_fetch

\* the budget truncate was called with
Budget == parse_max_output(inputs.max_output_chars)

\* C17: for any text and any budget the configuration accepts (any integer,
\* 0 and 1 included), the output of truncate has at most budget plus marker
\* length characters, and text no longer than the budget is returned unchanged.
C17_TruncateWithinBudget ==
    inputs.fn = "truncate" /\ outputs # <<>> =>
        /\ Len(outputs[1]) <= Budget + Len(TruncationMarker)
        /\ Len(inputs.text) <= Budget => outputs[1] = inputs.text

\* C18: truncation is idempotent: truncating the result again with the same
\* budget returns it unchanged, also when the first truncation inserted the
\* marker and so made the result longer than the budget.
C18_TruncateIdempotent ==
    inputs.fn = "truncate" /\ Len(outputs) = 2 => outputs[2] = outputs[1]

\* the lowercase extension of a path
Ext(f) == Lower(PathSuffix(f))
\* the categories a list of paths sets
CategoriesSet(files) ==
    {c \in DOMAIN default_categories : detect_categories(files)[c]}
Reverse(s) == [i \in 1..Len(s) |-> s[Len(s) + 1 - i]]

\* C19: classification is a total function of the changed-path list: a flag is
\* true if and only if some path has a lowercase extension in that category's
\* set; a single path sets at most one category (the extension sets are
\* pairwise disjoint) and none without a known extension; the result does not
\* depend on the order or the multiplicity of the paths.
C19_ClassificationByExtension ==
    inputs.fn = "detect_categories" /\ outputs # <<>> =>
        LET files == inputs.files
            cats == outputs[1]
        IN /\ cats \in [python_ts : BOOLEAN, rust : BOOLEAN, markdown : BOOLEAN]
           /\ cats.python_ts <=> \E i \in 1..Len(files) : Ext(files[i]) \in PY_TS_EXTS
           /\ cats.rust <=> \E i \in 1..Len(files) : Ext(files[i]) \in RUST_EXTS
           /\ cats.markdown <=> \E i \in 1..Len(files) : Ext(files[i]) \in MD_EXTS
           /\ PY_TS_EXTS \cap RUST_EXTS = {}
           /\ PY_TS_EXTS \cap MD_EXTS = {}
           /\ RUST_EXTS \cap MD_EXTS = {}
           /\ \A i \in 1..Len(files) :
                 /\ Cardinality(CategoriesSet(<<files[i]>>)) <= 1
                 /\ Ext(files[i]) \notin KnownExts => CategoriesSet(<<files[i]>>) = {}
           /\ detect_categories(Reverse(files)) = cats
           /\ detect_categories(files \o files) = cats
           /\ \A other \in SeqsUpTo(Range(files), MaxFiles) :
                 Range(other) = Range(files) => detect_categories(other) = cats
C19_Witness ==
    /\ inputs.fn = "detect_categories"
    /\ inputs.files = <<PathUniverse[5], PathUniverse[6]>>
    /\ outputs = <<[python_ts |-> TRUE, rust |-> FALSE, markdown |-> FALSE]>>

\* C20: once `ok` is false the pipeline performs no further stage: no git
\* command, no enumeration and no verification command is invoked after that
\* point and no field of the state changes; all that is left is emitting the
\* block decision, which the same step does.
C20_NoStageAfterFailure ==
    /\ [](~state.ok => Exited /\ exit_status = <<0>> /\ stdout = <<BlockPayload>>)
    /\ [][~state.ok => UNCHANGED <<calls, state, stdout, pc>>]_vars
    /\ [][state.ok /\ ~state'.ok =>
            /\ Len(calls') <= Len(calls) + 1
            /\ \A f \in DOMAIN state \ {"ok", "error", "fetched", "commands"} :
                  state'[f] = state[f]]_vars
C20_Witness ==
    /\ ~state.ok
    /\ state.error = NoneV
    /\ Len(state.commands) = 2
    /\ Last(calls).cmd = "make"

\* the runs of `make <targets>`, in order
GroupCalls == SelectSeq(calls, LAMBDA c : c.cmd = "make")
\* the target names of a group's categories
GroupNames(kind) ==
    IF kind = "code"
    THEN UNION {Range(CATS_TO_TARGETS(category)) : category \in CODE_CATS}
    ELSE UNION {Range(CATS_TO_TARGETS(category)) : category \in MD_CATS}
\* one of the group's categories was detected among the changed files
GroupDetected(kind) ==
    \E category \in (IF kind = "code" THEN CODE_CATS ELSE MD_CATS) :
       state.categories[category]

\* C21: verification commands run in at most two groups, the code group first
\* and then the markdown group; each group is invoked at most once, as one
\* command carrying all of its runnable targets, and only if that list is not
\* empty; a group none of whose categories was detected is never executed and
\* contributes no command result.
C21_TwoGroupsInOrder ==
    /\ Len(GroupCalls) = Len(commands)
    /\ [i \in 1..Len(commands) |-> commands[i].kind]
          \in {<<>>, <<"code">>, <<"markdown">>, <<"code", "markdown">>}
    /\ \A i \in 1..Len(commands) :
          /\ GroupCalls[i].args # <<>>
          /\ GroupCalls[i].args
                = Filter(state.make_targets_run, GroupNames(commands[i].kind))
          /\ commands[i].cmd = MsgMake \o JoinWith(GroupCalls[i].args, <<" ">>)
          /\ GroupDetected(commands[i].kind)
    /\ Exited => state.commands = commands
C21_Witness ==
    /\ Exited
    /\ Len(GroupCalls) = 2
    /\ GroupCalls[1].args = <<CheckFmt, Lint>>
    /\ GroupCalls[2].args = <<Markdownlint>>
    /\ state.categories = [python_ts |-> FALSE, rust |-> TRUE, markdown |-> TRUE]
    /\ state.make_targets_skipped = <<>>

\* git was not found on PATH: the run ended before any child process
GitUnavailable == Exited /\ exit_status = <<0>> /\ calls = <<>>
\* `git merge-base` failed or printed nothing
MergeBaseFailed == Exited /\ calls # <<>> /\ Last(calls).cmd = "git merge-base"
\* one of the three listing queries failed
DiffListingFailed ==
    \E i \in 1..Len(calls) :
       /\ calls[i].cmd \in DiffCmds \ {"git merge-base"}
       /\ calls[i].rc # <<0>>
\* the failures that are fatal to the run
FatalFailure ==
    \/ GitUnavailable
    \/ RefResolutionFailed
    \/ MergeBaseFailed
    \/ DiffListingFailed
    \/ QueryFailed
\* the reason that was printed has an error line with the state's error
ReasonHasError ==
    /\ Len(stdout) = 1
    /\ \E k \in 1..Len(stdout[1].reason) :
          stdout[1].reason[k] = [line |-> "error", text |-> state.error]

\* C22: every fatal path produces a reason: a run that meets a ref-resolution,
\* merge-base, diff-listing or target-enumeration failure, or finds git
\* unavailable, ends in block with a non-empty `error` that the printed reason
\* contains; none ends in allow or in a block without error text.
C22_FatalPathHasReason ==
    Exited /\ FatalFailure =>
        /\ Blocked /\ ~state.ok
        /\ Truthy(state.error)
        /\ ReasonHasError

\* the listing queries that have run, in order
ListingCalls == SelectSeq(calls, LAMBDA c : c.cmd \in DiffCmds \ {"git merge-base"})
\* strictly ascending in the order of Python's str comparison
Ascending(files) == \A i \in 1..(Len(files) - 1) : StrLess(files[i], files[i + 1])

\* C23: the changed-file list is the union of what the three listing queries
\* name (unstaged diff, staged diff, untracked paths), without blank entries
\* or duplicates, in ascending order; if one of the queries fails the run is
\* fatal, whatever the others returned: it blocks, and no classification,
\* enumeration or verification command follows.
C23_ChangedFilesSortedUnion ==
    /\ Len(printed) <= Len(ListingCalls)
    /\ printed # <<>> => Len(printed) = Len(ListingCalls) /\ changed = UNION Range(printed)
    /\ pc = "sorted" => Len(printed) = 3 /\ \A i \in 1..3 : ListingCalls[i].rc = <<0>>
    /\ changed \subseteq Paths
    /\ state.changed_files # <<>> => DiffDone
    /\ DiffDone =>
          /\ Range(state.changed_files) = changed
          /\ Ascending(state.changed_files)
    /\ DiffListingFailed =>
          /\ Last(ListingCalls).rc # <<0>>
          /\ Last(calls) = Last(ListingCalls)
          /\ Blocked /\ ~state.ok /\ Truthy(state.error)
          /\ state.changed_files = <<>>
          /\ state.categories = default_categories
          /\ state.make_targets_requested = <<>>
          /\ ~Invoked(MakeCmds)
C23_Witness ==
    /\ pc = "make_qp"
    /\ state.changed_files = <<PathUniverse[2], PathUniverse[1], PathUniverse[3]>>
    /\ Len(ListingCalls) = 3

\* the lines of a reason with one of the given wordings, in order
LinesOf(reason, wordings) == SelectSeq(reason, LAMBDA l : l.line \in wordings)
\* the commands that failed, in execution order
Failures(cmds) == SelectSeq(cmds, LAMBDA c : c.exit_code # 0)

\* C24: the reason has a failure section (the invocation, then the captured
\* output between fences) for exactly the commands with a non-zero exit code,
\* in execution order, and none for a command that exited zero; it lists the
\* first 60 changed files at most, followed by a "+N more" entry with
\* N = total - 60 exactly when there are more than 60.
C24_ReasonSectionsAndCap ==
    inputs.fn = "format_reason" /\ outputs # <<>> =>
        LET reason == outputs[1]
            st == inputs.state
            failed == Failures(st.commands)
            headings == LinesOf(reason, {"command_failed"})
            captured == LinesOf(reason, {"output"})
            listed == LinesOf(reason, {"changed_file"})
            total == Len(st.changed_files)
        IN /\ Len(headings) = Len(failed)
           /\ Len(captured) = Len(failed)
           /\ \A j \in 1..Len(failed) :
                 /\ headings[j].exit_code = failed[j].exit_code
                 /\ headings[j].cmd = failed[j].cmd
                 /\ captured[j].text # <<>>
                 /\ Contains(captured[j].text, Strip(failed[j].stdout))
                 /\ Contains(captured[j].text, Strip(failed[j].stderr))
           /\ \A k \in 1..Len(reason) :
                 reason[k].line = "command_failed" =>
                    /\ k + 3 <= Len(reason)
                    /\ reason[k + 1].line = "fence"
                    /\ reason[k + 2].line = "output"
                    /\ reason[k + 3].line = "fence"
           /\ Len(LinesOf(reason, {"fence"})) = 2 * Len(failed)
           /\ Len(listed) = (IF total < 60 THEN total ELSE 60)
           /\ \A i \in 1..Len(listed) : listed[i].path = st.changed_files[i]
           /\ LinesOf(reason, {"more"})
                 = (IF total > 60 THEN <<[line |-> "more", count |-> total - 60]>> ELSE <<>>)
           /\ \A k \in 1..Len(reason) :
                 reason[k].line = "more" => k > 1 /\ reason[k - 1].line = "changed_file"
C24_Witness ==
    /\ inputs.fn = "format_reason"
    /\ outputs # <<>>
    /\ Len(inputs.state.changed_files) = 62
    /\ Len(inputs.state.commands) = 2
    /\ inputs.state.commands[1].exit_code = 0
    /\ inputs.state.commands[2].exit_code # 0
    /\ \E k \in 1..Len(outputs[1]) : outputs[1][k] = [line |-> "more", count |-> 2]

\* the targets passed to `make` so far, over all groups, in order
Executed == JoinWith([i \in 1..Len(GroupCalls) |-> GroupCalls[i].args], <<>>)

\* C25: the targets passed to the build tool across the code and markdown
\* groups are exactly the reported runTargets: every target of runTargets is
\* executed in exactly one group, none twice, and no target outside runTargets
\* (no skipped target in particular) is ever executed.
C25_ExecutedIsRunTargets ==
    /\ NoDuplicates(Executed)
    /\ Range(Executed) \subseteq Range(state.make_targets_run)
    /\ Range(Executed) \cap Range(state.make_targets_skipped) = {}
    /\ Exited /\ exit_status = <<0>> =>
          Range(Executed) = Range(state.make_targets_run)
C25_Witness ==
    /\ Exited
    /\ Len(GroupCalls) = 2
    /\ state.make_targets_run = <<CheckFmt, Lint, Markdownlint>>
    /\ state.make_targets_skipped = <<Typecheck>>
    /\ Executed = <<CheckFmt, Lint, Markdownlint>>

\* C26: when a run has ended, a block decision has been printed if and only
\* if `ok` is false; and `ok` is false only if `error` is set or a recorded
\* command has a non-zero exit code.
C26_BlockIffNotOk ==
    /\ Exited =>
          /\ ~state.ok <=> \E k \in 1..Len(stdout) : stdout[k].decision = "block"
          /\ ~state.ok => stdout = <<BlockPayload>>
    /\ ~state.ok =>
          \/ Truthy(state.error)
          \/ \E i \in 1..Len(state.commands) : state.commands[i].exit_code # 0
C26_Witness ==
    /\ Exited
    /\ ~state.ok
    /\ stdout = <<BlockPayload>>
    /\ state.error = NoneV
    /\ Len(state.commands) = 1
    /\ state.commands[1].exit_code = 2

====
